---- MODULE Spec2Model ----
(***************************************************************************)
(* Model of the client-side health poller, src/components/HealthStatus.tsx *)
(*                                                                         *)
(* One HealthStatus instance is modelled.  Its state cell (useState) is    *)
(* created once, at construction; the effect of useEffect(..., []) runs at *)
(* every activation of the instance (Mount) and its cleanup at every       *)
(* deactivation (Unmount).  fetch() is asynchronous: a probe is issued in  *)
(* one step and completes in a later step (Resolve) with an outcome the    *)
(* environment chooses: an HTTP response with some status code, or a       *)
(* thrown network error.  The interval timer fires (Tick) at any moment    *)
(* at which it is active.                                                  *)
(*                                                                         *)
(* The other components of the page are modelled beside it, under their    *)
(* own specification PageSpec: the server components HealthStatusServer    *)
(* and JsonStatusServer, which fetch once per render, and Button.          *)
(***************************************************************************)
EXTENDS Integers, FiniteSets, Sequences, TLC

\* ---- bounds of the model ------------------------------------------------
MaxProbes == 4      \* fetch calls explored per behaviour
MaxCycles == 3      \* mount/unmount cycles explored per behaviour
MaxRenders == 2     \* renders of HealthStatusServer explored per behaviour
MaxClicks == 3      \* clicks on the Button explored per behaviour

\* ---- program constants --------------------------------------------------
PollPeriodMs == 10000

\* values of process.env.NEXT_PUBLIC_BACKEND_HEALTH_URL
EnvValues == {"undefined", "", "https://api.example.com/health"}

\* status codes a response can carry, around the edges of the ok class
StatusCodes == {200, 204, 299, 300, 404, 500, 503}

\* the body a response carries: a document that parses, or one that does not
Bodies == {"wellformed", "malformed"}

\* what a fetch can end in: a response, or a thrown error (the network
\* failed, or what came back could not be read as an HTTP response)
Outcomes == [kind : {"response"}, status : StatusCodes, body : Bodies]
              \cup {[kind |-> "throw", status |-> 0, body |-> "none"]}

NoLast == [id |-> 0, cycle |-> 0, src |-> "none", kind |-> "none", status |-> 0,
           body |-> "none"]

\* values of process.env.BACKEND_HEALTH_URL and process.env.BACKEND_JSON_URL
ServerEnvValues == {"undefined", "http://backend.internal/endpoint"}

DefaultJsonUrl == "http://api-service:3000/api/content/data"

\* texts the Button is given
ButtonTexts == {"Click me", "Save"}

NoRequest == [url |-> "none", method |-> "none", cache |-> "none"]
NoOutput == [kind |-> "none", text |-> "none", dot |-> "none", status |-> 0]

VARIABLES
  env,            \* process.env.NEXT_PUBLIC_BACKEND_HEALTH_URL
  isHealthy,      \* the useState cell: "null", "true" or "false"
  mounted,        \* the effect has run and its cleanup has not
  timers,         \* the active interval timers of the runtime
  interval,       \* the handle the cleanup closure holds, 0 if none
  inflight,       \* probes whose fetch has not settled yet
  fetchCalls,     \* number of fetch() calls made so far
  cycle,          \* number of activations so far
  issued,         \* probes issued in the current activation cycle
  ticks,          \* timer ticks fired in the current activation cycle
  resolved,       \* number of probes that have settled
  last,           \* the probe that settled most recently, and its outcome
  consoleErrors,  \* number of console.error calls
  unhandled,      \* number of checkHealth promises that rejected
  rendered,       \* the output of the latest render
  hssRenders,     \* renders of HealthStatusServer so far
  hssFetches,     \* fetch() calls HealthStatusServer has made
  hssReq,         \* the request of its latest fetch
  hssRes,         \* what that fetch ended in
  hssOut,         \* what its latest render produced
  jsonReq,        \* the request of JsonStatusServer's latest fetch
  jsonRes,        \* what that fetch ended in
  jsonOut,        \* what its latest render produced
  buttonText,     \* the text prop of the Button
  buttonLabel,    \* the label of the rendered button, "none" before
  clicks,         \* clicks on the rendered button
  handlerCalls    \* calls of the onClick handler

clientVars == <<env, isHealthy, mounted, timers, interval, inflight,
                fetchCalls, cycle, issued, ticks, resolved, last,
                consoleErrors, unhandled, rendered>>

pageVars == <<hssRenders, hssFetches, hssReq, hssRes, hssOut, jsonReq,
              jsonRes, jsonOut, buttonText, buttonLabel, clicks, handlerCalls>>

vars == <<clientVars, pageVars>>

\* ---- pure parts ---------------------------------------------------------

\* const backendHealthUrl = process.env.NEXT_PUBLIC_BACKEND_HEALTH_URL || ""
backendHealthUrl == IF env \in {"undefined", ""} THEN "" ELSE env

\* if (!backendHealthUrl) return;  -- TRUE when the effect goes on
EndpointConfiguredAlways(url) == TRUE
EndpointConfigured(url) == url # ""

\* Response.ok
ResOkBelow400(status) == status < 400
ResOk(status) == status >= 200 /\ status <= 299

\* The body of checkHealth after the await: what it passes to setIsHealthy
\* ("none": setIsHealthy is not called), how many times it logs, and
\* whether the promise it returns rejects.
CheckHealthNoCatch(o) ==
  IF o.kind = "response"
    THEN [setState |-> IF ResOk(o.status) THEN "true" ELSE "false",
          errors |-> 0, rejected |-> FALSE]
    ELSE [setState |-> "none", errors |-> 0, rejected |-> TRUE]
CheckHealthNullOnThrow(o) ==
  IF o.kind = "response"
    THEN [setState |-> IF ResOk(o.status) THEN "true" ELSE "false",
          errors |-> 0, rejected |-> FALSE]
    ELSE [setState |-> "null", errors |-> 1, rejected |-> FALSE]
CheckHealthParsesBody(o) ==
  IF o.kind = "response"
    THEN [setState |-> IF ResOk(o.status) /\ o.body = "wellformed"
                         THEN "true" ELSE "false",
          errors |-> IF o.body = "malformed" THEN 1 ELSE 0,
          rejected |-> FALSE]
    ELSE [setState |-> "false", errors |-> 1, rejected |-> FALSE]
CheckHealthCompletion(o) ==
  IF o.kind = "response"
    THEN [setState |-> IF ResOk(o.status) THEN "true" ELSE "false",
          errors |-> 0, rejected |-> FALSE]
    ELSE [setState |-> "false", errors |-> 1, rejected |-> FALSE]

\* setIsHealthy(v): the cell takes the value, whatever it held
SetIsHealthyIfNewest(cur, v, id, newest) ==
  IF v = "none" \/ id # newest THEN cur ELSE v
SetIsHealthyToggling(cur, v, id, newest) ==
  IF v = "none" THEN cur ELSE IF v = cur THEN "null" ELSE v
SetIsHealthySticky(cur, v, id, newest) ==
  IF v = "none" \/ cur = "false" THEN cur ELSE v
SetIsHealthy(cur, v, id, newest) == IF v = "none" THEN cur ELSE v

\* fetch(backendHealthUrl): the new probe joins the ones in flight
IssueProbe(infl, p) == infl \cup {p}

\* setInterval(checkHealth, 10000)
SetIntervalWrongPeriod(ts, h) == ts \cup {[id |-> h, ms |-> 1000]}
SetIntervalNotStarted(ts, h) == ts
SetInterval(ts, h) == ts \cup {[id |-> h, ms |-> PollPeriodMs]}

\* clearInterval(interval)
ClearIntervalNoop(ts, h) == ts
ClearIntervalStaleHandle(ts, h) == {t \in ts : t.id # h - 1}
ClearInterval(ts, h) == {t \in ts : t.id # h}

\* the timer callback runs whenever its timer is active
TickSkipsWhileBusy(t, ts, infl) == t \in ts /\ infl = {}
TickEnabled(t, ts, infl) == t \in ts

\* the render of lines 30-44
RenderHealthStatusNullAsDown(s) ==
  IF s = "true" THEN [text |-> "Backend healthy", dot |-> "bg-green-500"]
  ELSE [text |-> "Backend down", dot |-> "bg-red-500"]
RenderHealthStatus(s) ==
  IF s = "null" THEN [text |-> "Checking...", dot |-> "none"]
  ELSE IF s = "true" THEN [text |-> "Backend healthy", dot |-> "bg-green-500"]
  ELSE [text |-> "Backend down", dot |-> "bg-red-500"]

\* fetch(backendHealthUrl): no init argument, so the method and the cache
\* mode are the defaults of fetch
ClientRequest(url) == [url |-> url, method |-> "GET", cache |-> "default"]

NewProbe(src, c) == [id |-> fetchCalls + 1, cycle |-> c, src |-> src,
                     req |-> ClientRequest(backendHealthUrl)]

\* ---- the state machine --------------------------------------------------

Init ==
  /\ env \in EnvValues
  /\ isHealthy = "null"
  /\ mounted = FALSE
  /\ timers = {}
  /\ interval = 0
  /\ inflight = {}
  /\ fetchCalls = 0
  /\ cycle = 0
  /\ issued = 0
  /\ ticks = 0
  /\ resolved = 0
  /\ last = NoLast
  /\ consoleErrors = 0
  /\ unhandled = 0
  /\ rendered = [text |-> "none", dot |-> "none"]
  /\ hssRenders = 0
  /\ hssFetches = 0
  /\ hssReq = NoRequest
  /\ hssRes = NoLast
  /\ hssOut = NoOutput
  /\ jsonReq = NoRequest
  /\ jsonRes = NoLast
  /\ jsonOut = NoOutput
  /\ buttonText = "none"
  /\ buttonLabel = "none"
  /\ clicks = 0
  /\ handlerCalls = 0

\* Activation: the component renders and its effect runs.
Mount ==
  /\ ~mounted
  /\ cycle < MaxCycles
  /\ mounted' = TRUE
  /\ cycle' = cycle + 1
  /\ ticks' = 0
  /\ rendered' = RenderHealthStatus(isHealthy)
  /\ IF EndpointConfigured(backendHealthUrl)
       THEN /\ fetchCalls < MaxProbes
            /\ inflight' = IssueProbe(inflight, NewProbe("mount", cycle + 1))
            /\ fetchCalls' = fetchCalls + 1
            /\ issued' = 1
            /\ timers' = SetInterval(timers, cycle + 1)
            /\ interval' = cycle + 1
       ELSE /\ issued' = 0
            /\ interval' = 0
            /\ UNCHANGED <<inflight, fetchCalls, timers>>
  /\ UNCHANGED <<env, isHealthy, resolved, last, consoleErrors, unhandled>>
  /\ UNCHANGED pageVars

\* Deactivation: the cleanup the effect returned, if it returned one.
UnmountResettingStatus ==
  /\ mounted
  /\ mounted' = FALSE
  /\ timers' = IF interval # 0 THEN ClearInterval(timers, interval) ELSE timers
  /\ interval' = 0
  /\ isHealthy' = "null"
  /\ UNCHANGED <<env, inflight, fetchCalls, cycle, issued, ticks,
                 resolved, last, consoleErrors, unhandled, rendered>>
  /\ UNCHANGED pageVars
UnmountAbortingProbes ==
  /\ mounted
  /\ mounted' = FALSE
  /\ timers' = IF interval # 0 THEN ClearInterval(timers, interval) ELSE timers
  /\ interval' = 0
  /\ inflight' = {}
  /\ UNCHANGED <<env, isHealthy, fetchCalls, cycle, issued, ticks,
                 resolved, last, consoleErrors, unhandled, rendered>>
  /\ UNCHANGED pageVars
Unmount ==
  /\ mounted
  /\ mounted' = FALSE
  /\ timers' = IF interval # 0 THEN ClearInterval(timers, interval) ELSE timers
  /\ interval' = 0
  /\ UNCHANGED <<env, isHealthy, inflight, fetchCalls, cycle, issued, ticks,
                 resolved, last, consoleErrors, unhandled, rendered>>
  /\ UNCHANGED pageVars

\* One firing of an active interval timer: it calls checkHealth.
Tick ==
  \E t \in timers :
    /\ TickEnabled(t, timers, inflight)
    /\ fetchCalls < MaxProbes
    /\ inflight' = IssueProbe(inflight, NewProbe("tick", cycle))
    /\ fetchCalls' = fetchCalls + 1
    /\ issued' = issued + 1
    /\ ticks' = ticks + 1
    /\ UNCHANGED <<env, isHealthy, mounted, timers, interval, cycle, resolved,
                   last, consoleErrors, unhandled, rendered>>
    /\ UNCHANGED pageVars

\* The fetch of probe p settles with outcome o and checkHealth runs on.
Resolve ==
  \E p \in inflight, o \in Outcomes :
    LET r == CheckHealthCompletion(o) IN
    /\ isHealthy' = SetIsHealthy(isHealthy, r.setState, p.id, fetchCalls)
    /\ consoleErrors' = consoleErrors + r.errors
    /\ unhandled' = unhandled + (IF r.rejected THEN 1 ELSE 0)
    /\ inflight' = inflight \ {p}
    /\ resolved' = resolved + 1
    /\ last' = [id |-> p.id, cycle |-> p.cycle, src |-> p.src,
                kind |-> o.kind, status |-> o.status, body |-> o.body]
    /\ UNCHANGED <<env, mounted, timers, interval, fetchCalls, cycle, issued,
                   ticks, rendered>>
    /\ UNCHANGED pageVars

\* A re-render of the mounted component.
Render ==
  /\ mounted
  /\ rendered' = RenderHealthStatus(isHealthy)
  /\ UNCHANGED <<env, isHealthy, mounted, timers, interval, inflight,
                 fetchCalls, cycle, issued, ticks, resolved, last,
                 consoleErrors, unhandled>>
  /\ UNCHANGED pageVars

Next == Mount \/ Unmount \/ Tick \/ Resolve \/ Render

Spec == Init /\ [][Next]_vars

\* The same machine under the assumption that a fetch in flight settles in
\* the end: the code sets no timeout, the assumption is the environment's.
LiveSpec == Init /\ [][Next]_vars /\ WF_vars(Resolve)

\* ---- the other components of the page ----------------------------------

\* fetch(process.env.BACKEND_HEALTH_URL!, { cache: "no-store" })
HssRequestDefaultCache(e) == [url |-> e, method |-> "GET", cache |-> "default"]
HssRequest(e) == [url |-> e, method |-> "GET", cache |-> "no-store"]

\* what a render of HealthStatusServer ends in: the await is in no try
\* block, so a fetch that throws makes the render throw
HealthStatusServerOutputCatching(o) ==
  IF o.kind = "response" /\ ResOk(o.status)
    THEN [kind |-> "view", text |-> "Backend healthy", dot |-> "bg-green-500",
          status |-> 0]
    ELSE [kind |-> "view", text |-> "Backend down", dot |-> "bg-red-500",
          status |-> 0]
HealthStatusServerOutput(o) ==
  IF o.kind = "throw"
    THEN [kind |-> "fault", text |-> "none", dot |-> "none", status |-> 0]
  ELSE IF ResOk(o.status)
    THEN [kind |-> "view", text |-> "Backend healthy", dot |-> "bg-green-500",
          status |-> 0]
    ELSE [kind |-> "view", text |-> "Backend down", dot |-> "bg-red-500",
          status |-> 0]

\* process.env.BACKEND_JSON_URL ?? "http://api-service:3000/api/content/data"
JsonUrl(e) == IF e = "undefined" THEN DefaultJsonUrl ELSE e

JsonRequest(e) == [url |-> JsonUrl(e), method |-> "GET", cache |-> "no-store"]

\* what a render of JsonStatusServer ends in: neither the fetch nor
\* res.json() is in a try block
JsonStatusServerOutput(o) ==
  IF o.kind = "throw"
    THEN [kind |-> "fault", text |-> "none", dot |-> "none", status |-> 0]
  ELSE IF ~ResOk(o.status)
    THEN [kind |-> "inline-error", text |-> "Failed to fetch JSON",
          dot |-> "text-red-500", status |-> o.status]
  ELSE IF o.body = "malformed"
    THEN [kind |-> "fault", text |-> "none", dot |-> "none", status |-> 0]
    ELSE [kind |-> "view", text |-> "Backend JSON Response", dot |-> "none",
          status |-> 0]

\* <button onClick={onClick}>{text}</button>
ButtonLabel(text) == text
OnClickTwice(n) == n + 2
OnClick(n) == n + 1

\* a fetch of an absent URL cannot be sent: it throws
CanEndIn(e, o) == e = "undefined" => o.kind = "throw"

\* One render of HealthStatusServer.
HssRender ==
  \E e \in ServerEnvValues, o \in Outcomes :
    /\ hssRenders < MaxRenders
    /\ CanEndIn(e, o)
    /\ hssRenders' = hssRenders + 1
    /\ hssFetches' = hssFetches + 1
    /\ hssReq' = HssRequest(e)
    /\ hssRes' = [NoLast EXCEPT !.kind = o.kind, !.status = o.status,
                                !.body = o.body]
    /\ hssOut' = HealthStatusServerOutput(o)
    /\ UNCHANGED <<jsonReq, jsonRes, jsonOut, buttonText, buttonLabel,
                   clicks, handlerCalls>>
    /\ UNCHANGED clientVars

\* One render of JsonStatusServer.
JsonRender ==
  \E e \in ServerEnvValues, o \in Outcomes :
    /\ jsonReq' = JsonRequest(e)
    /\ jsonRes' = [NoLast EXCEPT !.kind = o.kind, !.status = o.status,
                                 !.body = o.body]
    /\ jsonOut' = JsonStatusServerOutput(o)
    /\ UNCHANGED <<hssRenders, hssFetches, hssReq, hssRes, hssOut,
                   buttonText, buttonLabel, clicks, handlerCalls>>
    /\ UNCHANGED clientVars

\* The Button is rendered with a text and a handler.
ButtonRender ==
  \E t \in ButtonTexts :
    /\ buttonText' = t
    /\ buttonLabel' = ButtonLabel(t)
    /\ UNCHANGED <<hssRenders, hssFetches, hssReq, hssRes, hssOut, jsonReq,
                   jsonRes, jsonOut, clicks, handlerCalls>>
    /\ UNCHANGED clientVars

\* A click on the rendered button.
ButtonClick ==
  /\ buttonLabel # "none"
  /\ clicks < MaxClicks
  /\ clicks' = clicks + 1
  /\ handlerCalls' = OnClick(handlerCalls)
  /\ UNCHANGED <<hssRenders, hssFetches, hssReq, hssRes, hssOut, jsonReq,
                 jsonRes, jsonOut, buttonText, buttonLabel>>
  /\ UNCHANGED clientVars

PageNext == HssRender \/ JsonRender \/ ButtonRender \/ ButtonClick

PageSpec == Init /\ [][PageNext]_vars

TypeOK ==
  /\ env \in EnvValues
  /\ isHealthy \in {"null", "true", "false"}
  /\ mounted \in BOOLEAN
  /\ interval \in 0..MaxCycles
  /\ fetchCalls \in 0..MaxProbes
  /\ cycle \in 0..MaxCycles
  /\ resolved \in 0..MaxProbes
  /\ \A p \in inflight : p.id \in 1..fetchCalls /\ p.cycle \in 1..cycle

\* ---- vocabulary of the properties ---------------------------------------

OkClass == 200..299

\* the status the outcome recorded in l stands for
StatusOf(l) ==
  IF l.kind = "response" /\ l.status \in OkClass THEN "true" ELSE "false"

MountStep == cycle' = cycle + 1
UnmountStep == mounted /\ ~mounted'
TickStep == ticks' = ticks + 1
ResolveStep == resolved' = resolved + 1

\* the probe that settles in a ResolveStep was in flight at an unmount
SettlesStale == ResolveStep /\ (~mounted \/ last'.cycle < cycle)

\* ---- C1 -----------------------------------------------------------------
\* C1: once the instance has been unmounted, a probe that was in flight at
\* the unmount leaves the status as it is when it settles, whatever its
\* outcome.
C1_FrozenAfterUnmount ==
  [][SettlesStale => isHealthy' = isHealthy]_vars

\* ---- C2 -----------------------------------------------------------------
\* C2: whenever a probe settles while the instance is mounted, the status
\* becomes the outcome of that probe (Healthy if ok, Unhealthy otherwise),
\* whatever the order of issue and whatever the status was before.
C2_LastResolvedWins ==
  [][(ResolveStep /\ mounted) => isHealthy' = StatusOf(last')]_vars

\* probe 1 settles ok after probe 2 did, all within the first activation
C2_Witness ==
  /\ mounted /\ cycle = 1
  /\ resolved = 2 /\ last.id = 1 /\ fetchCalls = 2
  /\ last.kind = "response" /\ last.status = 200
  /\ isHealthy = "true"

\* ---- C3 -----------------------------------------------------------------
\* C3: with a non-empty endpoint a mount issues exactly one probe at once
\* and starts one repeating timer of period 10,000 ms, every tick issues
\* exactly one probe, and so the probes issued in an activation cycle are
\* 1 plus the ticks fired in it.
C3_ProbesPerCycle ==
  /\ []((cycle > 0 /\ backendHealthUrl # "") =>
          /\ issued = 1 + ticks
          /\ \A t \in timers : t.ms = 10000
          /\ (mounted => Cardinality(timers) = 1))
  /\ [][(MountStep /\ backendHealthUrl # "") =>
          /\ fetchCalls' = fetchCalls + 1
          /\ ticks' = 0
          /\ \E p \in inflight' \ inflight : p.src = "mount"]_vars
  /\ [][TickStep =>
          /\ fetchCalls' = fetchCalls + 1
          /\ Cardinality(inflight' \ inflight) = 1]_vars

C3_Witness ==
  /\ mounted /\ backendHealthUrl # ""
  /\ ticks = 2 /\ issued = 3
  /\ Cardinality(timers) = 1

\* ---- C4 -----------------------------------------------------------------
\* C4: an unmounted instance has no active poll timer, and while it is
\* unmounted no probe is issued and no tick fires: the next probe comes
\* with the next mount.
C4_UnmountCancelsTimer ==
  /\ [](~mounted => timers = {})
  /\ [][(~mounted /\ (fetchCalls' # fetchCalls \/ ticks' # ticks))
          => mounted']_vars

C4_Witness ==
  /\ ~mounted /\ cycle = 2 /\ backendHealthUrl # ""
  /\ fetchCalls >= 3 /\ timers = {}

\* ---- C5 -----------------------------------------------------------------
\* C5: the instance never has more than one active poll timer.
C5_AtMostOneTimer == Cardinality(timers) <= 1

C5_Witness ==
  /\ mounted /\ cycle = 3
  /\ Cardinality(timers) = 1 /\ inflight # {}

\* ---- C6 -----------------------------------------------------------------
\* C6: with an empty or absent endpoint no probe is ever issued, no timer
\* is ever started, the status is Unknown and a render shows "Checking...".
C6_EmptyEndpointIdle ==
  backendHealthUrl = "" =>
    /\ fetchCalls = 0 /\ inflight = {}
    /\ timers = {} /\ interval = 0
    /\ isHealthy = "null"
    /\ rendered.text \in {"none", "Checking..."}

C6_Witness ==
  /\ env = "undefined" /\ backendHealthUrl = ""
  /\ mounted /\ cycle = 2
  /\ rendered.text = "Checking..."

\* ---- C7 -----------------------------------------------------------------
\* C7: after a probe settled with an HTTP response the status is Healthy
\* exactly if the status code is in 200..299, and Unhealthy otherwise.
C7_OkClassOnly ==
  last.kind = "response" =>
    /\ (isHealthy = "true") <=> (last.status >= 200 /\ last.status < 300)
    /\ (isHealthy = "false") <=> (last.status < 200 \/ last.status >= 300)

C7_Witness ==
  \/ (last.kind = "response" /\ last.status = 299 /\ isHealthy = "true"
        /\ consoleErrors = 1)
  \/ (last.kind = "response" /\ last.status = 300 /\ isHealthy = "false"
        /\ resolved = 3 /\ consoleErrors = 0)

\* ---- C8 -----------------------------------------------------------------
\* C8: a probe whose fetch throws logs the error once and sets the status
\* to Unhealthy, its promise does not reject, and the timer goes on;
\* nothing else is ever logged and no probe ever rejects.
C8_ThrowIsCaught ==
  /\ [](unhandled = 0 /\ consoleErrors <= resolved)
  /\ [][(ResolveStep /\ last'.kind = "throw") =>
          /\ isHealthy' = "false"
          /\ consoleErrors' = consoleErrors + 1
          /\ unhandled' = unhandled
          /\ timers' = timers]_vars
  /\ [][(ResolveStep /\ last'.kind = "response") =>
          consoleErrors' = consoleErrors]_vars

\* the mount probe and a tick probe both threw, and a later tick has
\* issued a further probe
C8_Witness ==
  /\ mounted /\ last.kind = "throw" /\ last.src = "tick"
  /\ consoleErrors = 2 /\ resolved = 2 /\ unhandled = 0
  /\ isHealthy = "false"
  /\ \E p \in inflight : p.id > last.id /\ p.src = "tick"

\* ---- C9 -----------------------------------------------------------------
\* C9: an active timer can tick whether or not probes are in flight, a
\* tick adds its probe to the ones in flight and removes none, and a probe
\* that settles while the instance is mounted applies its outcome.
C9_TicksIgnoreInflight ==
  /\ []((timers # {} /\ fetchCalls < MaxProbes) => ENABLED Tick)
  /\ [][TickStep =>
          /\ inflight \subseteq inflight'
          /\ Cardinality(inflight') = Cardinality(inflight) + 1]_vars
  /\ [][(ResolveStep /\ mounted /\ Cardinality(inflight) > 1) =>
          isHealthy' = StatusOf(last')]_vars

\* three probes were in flight together and the second has settled first
C9_Witness ==
  /\ mounted /\ cycle = 1 /\ fetchCalls = 3
  /\ resolved = 1 /\ last.id = 2 /\ isHealthy = StatusOf(last)
  /\ Cardinality(inflight) = 2

\* ---- C10 ----------------------------------------------------------------
\* C10: the status changes only in a step in which a probe settles, and it
\* is Unknown as long as no probe of the instance has settled.
C10_OnlyCompletionWrites ==
  /\ [][isHealthy' # isHealthy => ResolveStep]_vars
  /\ [](resolved = 0 => isHealthy = "null")

\* a status survives an unmount, a mount, a tick and a render
C10_Witness ==
  /\ mounted /\ cycle = 2 /\ ticks = 1
  /\ resolved = 1 /\ last.cycle = 1
  /\ isHealthy = "true" /\ rendered.text = "Backend healthy"

\* ---- C11 ----------------------------------------------------------------
\* C11: what a render shows is fixed by the status alone: "Checking..."
\* without indicator for Unknown, the green indicator with "Backend healthy"
\* for Healthy, the red one with "Backend down" for Unhealthy, and nothing
\* else is ever shown; a render outside a mount issues no probe and leaves
\* status, timer and probes in flight alone.
C11_RenderIsPure ==
  /\ [](rendered \in {[text |-> "none", dot |-> "none"],
                      [text |-> "Checking...", dot |-> "none"],
                      [text |-> "Backend healthy", dot |-> "bg-green-500"],
                      [text |-> "Backend down", dot |-> "bg-red-500"]})
  /\ [][rendered' # rendered =>
          /\ (isHealthy = "null" => rendered'.text = "Checking...")
          /\ (isHealthy = "true" => rendered'.text = "Backend healthy")
          /\ (isHealthy = "false" => rendered'.text = "Backend down")]_vars
  /\ [][(rendered' # rendered /\ ~MountStep) =>
          UNCHANGED <<isHealthy, timers, interval, inflight, fetchCalls>>]_vars

\* a thrown error has been logged and the render shows only "Backend down"
C11_Witness ==
  /\ mounted /\ last.kind = "throw" /\ consoleErrors = 1
  /\ isHealthy = "false"
  /\ rendered = [text |-> "Backend down", dot |-> "bg-red-500"]

\* ---- C12 ----------------------------------------------------------------
\* C12: a successful probe that settles while the status is Healthy leaves
\* it Healthy, and a failing one (non-ok status or a throw) that settles
\* while it is Unhealthy leaves it Unhealthy.
C12_CompletionIdempotent ==
  /\ [][(ResolveStep /\ isHealthy = "true" /\ StatusOf(last') = "true")
          => isHealthy' = "true"]_vars
  /\ [][(ResolveStep /\ isHealthy = "false" /\ StatusOf(last') = "false")
          => isHealthy' = "false"]_vars

\* three probes in a row have thrown
C12_Witness ==
  /\ resolved = 3 /\ consoleErrors = 3
  /\ last.kind = "throw" /\ isHealthy = "false"

\* ---- C13 ----------------------------------------------------------------
\* C13: the status is one of Unknown, Healthy and Unhealthy, it starts as
\* Unknown, no step enters Unknown, and it is not Unknown once a probe has
\* settled.
C13_UnknownOnlyInitially ==
  /\ isHealthy = "null"
  /\ [](isHealthy \in {"null", "true", "false"})
  /\ [][isHealthy' = "null" => isHealthy = "null"]_vars
  /\ [](resolved > 0 => isHealthy # "null")

C13_Witness ==
  /\ ~mounted /\ cycle = 2 /\ resolved = 3
  /\ last.kind = "throw" /\ isHealthy = "false"

\* ---- C14 ----------------------------------------------------------------
\* a probe failed: its fetch threw, the status code is not ok, or the
\* response is malformed
ProbeFailed(l) ==
  \/ l.kind = "throw"
  \/ (l.kind = "response" /\ l.status \notin OkClass)
  \/ (l.kind = "response" /\ l.body = "malformed")

\* C14 (as claimed): after any failed probe, malformed responses included,
\* the status is Unhealthy.
C14_EveryFailureUnhealthy == ProbeFailed(last) => isHealthy = "false"

\* C14 (amended): a bad status code and a thrown error (which is what a
\* response that cannot be read as HTTP ends in) set the status to
\* Unhealthy and leave the timer running and the promise unrejected; the
\* body is never read, so an ok status with a malformed body sets Healthy.
C14_FailuresCollapse ==
  /\ [][(ResolveStep /\ (last'.kind = "throw" \/ last'.status \notin OkClass))
          => /\ isHealthy' = "false"
             /\ timers' = timers
             /\ unhandled' = 0]_vars
  /\ [][(ResolveStep /\ last'.kind = "response" /\ last'.status \in OkClass
           /\ last'.body = "malformed")
          => isHealthy' = "true" /\ timers' = timers]_vars

\* a 503 has made the status Unhealthy and a later tick has issued a probe
C14_Witness ==
  /\ mounted /\ last.kind = "response" /\ last.status = 503
  /\ isHealthy = "false" /\ timers # {}
  /\ \E p \in inflight : p.id > last.id /\ p.src = "tick"

\* ---- C15 ----------------------------------------------------------------
\* an outcome is ok: a response with a status code of the ok class
OkOutcome(o) == o.kind = "response" /\ o.status \in OkClass

\* C15: whenever a probe settles, every other outcome that agrees with the
\* actual one on being ok or not (another body, another non-ok code, a
\* throw instead of a non-ok code) would have produced the same status.
C15_OnlyOkBitObservable ==
  [][ResolveStep =>
       \A o \in Outcomes :
         (OkOutcome(o) <=> OkOutcome(last')) =>
           SetIsHealthy(isHealthy, CheckHealthCompletion(o).setState,
                        last'.id, fetchCalls) = isHealthy']_vars

\* a 404 with a malformed body is shown like any other failure
C15_Witness ==
  /\ mounted /\ last.kind = "response" /\ last.status = 404
  /\ last.body = "malformed" /\ isHealthy = "false"
  /\ rendered.text = "Backend down"

\* ---- C16 ----------------------------------------------------------------
\* the fetch of JsonStatusServer failed: it threw, the response is not ok,
\* or the body of an ok response does not parse
JsonFetchFailed(l) ==
  \/ l.kind = "throw"
  \/ (l.kind = "response" /\ l.status \notin OkClass)
  \/ (l.kind = "response" /\ l.body = "malformed")

\* C16: after any failed fetch JsonStatusServer has rendered the inline
\* error message, and its render has not thrown.
C16_JsonFailuresInline ==
  JsonFetchFailed(jsonRes) => jsonOut.kind = "inline-error"

\* ---- C17 ----------------------------------------------------------------
\* C17: HealthStatusServer has made as many fetches as renders, each a GET
\* with cache "no-store" to the value of BACKEND_HEALTH_URL, and a render
\* starts no timer.
C17_OneUncachedProbePerRender ==
  /\ [](hssFetches = hssRenders)
  /\ [](hssRenders > 0 =>
          /\ hssReq.cache = "no-store" /\ hssReq.method = "GET"
          /\ hssReq.url \in ServerEnvValues)
  /\ [][hssRenders' = hssRenders + 1 =>
          hssFetches' = hssFetches + 1 /\ timers' = timers]_vars
  /\ [](timers = {})

C17_Witness ==
  /\ hssRenders = 2 /\ hssFetches = 2
  /\ hssReq.cache = "no-store" /\ hssOut.kind = "view"

\* ---- C18 ----------------------------------------------------------------
\* C18: the rendered button carries its text prop as label, and the
\* handler has been called once per click: not at all before the first.
C18_ButtonClicks ==
  /\ (buttonLabel # "none" => buttonLabel = buttonText)
  /\ handlerCalls = clicks
  /\ (buttonLabel = "none" => handlerCalls = 0)

C18_Witness ==
  /\ buttonText = "Click me" /\ buttonLabel = "Click me"
  /\ clicks = 1 /\ handlerCalls = 1

\* ---- C19 ----------------------------------------------------------------
\* C19: clearing the timer of the cleanup a second time changes nothing
\* the first did not, and while the instance is deactivated no step
\* changes the status.
C19_StopIdempotentAndFinal ==
  /\ [](ClearInterval(ClearInterval(timers, interval), interval)
          = ClearInterval(timers, interval))
  /\ [][(~mounted /\ ~mounted') => isHealthy' = isHealthy]_vars

\* ---- C20 ----------------------------------------------------------------
\* C20: every probe in flight is a GET to the configured endpoint whose
\* cache mode disables the HTTP cache.
C20_ProbesUncached ==
  \A p \in inflight :
    /\ p.req.method = "GET"
    /\ p.req.url = backendHealthUrl
    /\ p.req.cache = "no-store"

\* ---- C21 ----------------------------------------------------------------
\* C21: with an endpoint the mount step itself starts the timer, with the
\* mount's probe still in flight; as long as no probe has settled the
\* timer can tick and the component can render.
C21_MountDoesNotWait ==
  /\ [][(MountStep /\ backendHealthUrl # "") =>
          /\ \E t \in timers' : t.id = interval'
          /\ \E p \in inflight' : p.src = "mount" /\ p.cycle = cycle']_vars
  /\ []((mounted /\ backendHealthUrl # "" /\ resolved = 0
           /\ fetchCalls < MaxProbes) => ENABLED Tick)
  /\ []((mounted /\ inflight # {}) => ENABLED Render)

\* the mount's probe has not settled, two ticks have issued probes and the
\* render shows "Checking..."
C21_Witness ==
  /\ mounted /\ cycle = 1 /\ resolved = 0
  /\ ticks = 2 /\ Cardinality(inflight) = 3
  /\ rendered.text = "Checking..."

\* ---- C22 ----------------------------------------------------------------
ResolveHealthy == Resolve /\ isHealthy' = "true"
ResolveUnhealthy == Resolve /\ isHealthy' = "false"

\* C22: while the instance is mounted with an endpoint a further probe can
\* always be issued, and whatever the status, a probe in flight can settle
\* into Healthy and can settle into Unhealthy.
C22_NoTerminalStatus ==
  /\ []((mounted /\ backendHealthUrl # "" /\ fetchCalls < MaxProbes)
          => ENABLED Tick)
  /\ []((mounted /\ inflight # {})
          => (ENABLED ResolveHealthy /\ ENABLED ResolveUnhealthy))

\* the status has been Unhealthy and is Healthy again, with a probe to come
C22_Witness ==
  /\ mounted /\ cycle = 1 /\ resolved = 2 /\ consoleErrors = 1
  /\ last.kind = "response" /\ isHealthy = "true"
  /\ inflight # {}

\* ---- C23 ----------------------------------------------------------------
\* C23: if every probe in flight settles in the end, an instance mounted
\* with an endpoint gets a status other than Unknown, unless it is
\* unmounted first.
C23_StatusEventuallyKnown ==
  (mounted /\ backendHealthUrl # "") ~> (isHealthy # "null" \/ ~mounted)

C23_Witness ==
  /\ mounted /\ cycle = 1 /\ backendHealthUrl # ""
  /\ resolved = 1 /\ isHealthy # "null" /\ ticks = 1

\* ---- C24 ----------------------------------------------------------------
\* C24: an unmount leaves the probes in flight as they are, and status,
\* counters and output with them; a probe in flight can settle whether
\* the instance is mounted or not.
C24_UnmountKeepsProbes ==
  /\ [][UnmountStep =>
          /\ inflight' = inflight
          /\ UNCHANGED <<isHealthy, fetchCalls, resolved, last,
                         consoleErrors, unhandled, rendered>>]_vars
  /\ [](inflight # {} => ENABLED Resolve)

\* two probes were in flight at the unmount: one has settled since, the
\* other is still in flight
C24_Witness ==
  /\ ~mounted /\ cycle = 1 /\ fetchCalls = 2
  /\ resolved = 1 /\ Cardinality(inflight) = 1
  /\ rendered.text = "Checking..." /\ isHealthy # "null"

\* ---- C25 ----------------------------------------------------------------
\* C25: a render of HealthStatusServer whose fetch got a response shows
\* "Backend healthy" exactly if the response is ok and "Backend down"
\* otherwise; a render whose fetch threw shows nothing and ends in the
\* error.
C25_ServerVariantOutput ==
  hssRenders > 0 =>
    /\ (hssRes.kind = "response" =>
          /\ hssOut.kind = "view"
          /\ (hssOut.text = "Backend healthy") <=> (hssRes.status \in OkClass)
          /\ (hssOut.text = "Backend down") <=> (hssRes.status \notin OkClass))
    /\ (hssRes.kind = "throw" =>
          hssOut.kind = "fault" /\ hssOut.text = "none")

C25_Witness ==
  /\ hssRenders = 2 /\ hssRes.kind = "throw"
  /\ hssOut.kind = "fault" /\ hssOut.text = "none"
====
